---- MODULE Spec2Model ----
(***************************************************************************)
(* The /execute pipeline of the BizSQL API (src/api/main.py) with the SQL  *)
(* sanitizer (src/api/sql_safety.py) and the text extractors               *)
(* (src/api/providers.py).  Texts are TLA+ strings handled character by    *)
(* character, so that strip, lower, find and the regular expressions of    *)
(* the source are computed rather than assumed.  A value the source keeps  *)
(* in a local variable is passed on as the parameter of the operator that  *)
(* models the lines after the assignment.                                  *)
(***************************************************************************)
EXTENDS Integers, Sequences, FiniteSets, TLC

(***************************************************************************)
(* Python str and re primitives, over the characters the inputs use.       *)
(***************************************************************************)

\* The i-th character of s (1-based) as a one-character string, empty when
\* s has no such position (the Python slice s[i-1:i]).
Ch(s, i) ==
    IF i >= 1 /\ i <= Len(s) THEN SubSeq(s, i, i) ELSE ""

\* The Python slice s[i-1:], for the 1-based position i.
From(s, i) ==
    SubSeq(s, i, Len(s))

MinOf(S) ==
    CHOOSE x \in S : \A y \in S : x <= y

MaxOf(S) ==
    CHOOSE x \in S : \A y \in S : x >= y

\* The least position of a set of positions, 0 for the empty set.
FirstOf(hits) ==
    IF hits = {} THEN 0 ELSE MinOf(hits)

UPPERCASE ==
    "ABCDEFGHIJKLMNOPQRSTUVWXYZ"

LOWERCASE ==
    "abcdefghijklmnopqrstuvwxyz"

DECIMAL ==
    "0123456789"

CharsOf(s) ==
    { Ch(s, i) : i \in 1..Len(s) }

\* The whitespace characters of the inputs: blank, newline, tab.
Whitespace ==
    {" ", "\n", "\t"}

\* \w of the re module: letters, digits (superscript two is alphanumeric in
\* Unicode, hence a word character) and the underscore.
WordChars ==
    CharsOf(UPPERCASE) \cup CharsOf(LOWERCASE) \cup CharsOf(DECIMAL) \cup {"_", "²"}

LowerMap ==
    [ c \in CharsOf(UPPERCASE) |->
        Ch(LOWERCASE, CHOOSE i \in 1..Len(UPPERCASE) : Ch(UPPERCASE, i) = c) ]

RECURSIVE lower(_)
\* str.lower(): every character mapped, the text taken by halves.
lower(s) ==
    IF Len(s) = 0 THEN ""
    ELSE IF Len(s) = 1 THEN (IF s \in DOMAIN LowerMap THEN LowerMap[s] ELSE s)
    ELSE lower(SubSeq(s, 1, Len(s) \div 2))
             \o lower(SubSeq(s, (Len(s) \div 2) + 1, Len(s)))

\* The position reached from position i by skipping characters of chars
\* (a greedy character class of a regular expression).
skipWhile(s, i, chars) ==
    MinOf({ j \in i..Len(s) : Ch(s, j) \notin chars }
              \cup {IF i > Len(s) THEN i ELSE Len(s) + 1})

\* The position reached from position i by skipping characters not in chars.
skipUntil(s, i, chars) ==
    MinOf({ j \in i..Len(s) : Ch(s, j) \in chars }
              \cup {IF i > Len(s) THEN i ELSE Len(s) + 1})

\* str.lstrip(chars): drops every leading character that is in chars.
lstrip(s, chars) ==
    From(s, skipWhile(s, 1, chars))

\* str.rstrip(chars): drops every trailing character that is in chars.
rstrip(s, chars) ==
    SubSeq(s, 1, MaxOf({0} \cup { i \in 1..Len(s) : Ch(s, i) \notin chars }))

\* str.strip(chars); strip(s, Whitespace) is str.strip().
strip(s, chars) ==
    rstrip(lstrip(s, chars), chars)

\* str.startswith(p)
startswith(s, p) ==
    Len(s) >= Len(p) /\ SubSeq(s, 1, Len(p)) = p

\* p occurs in s at the 1-based position i.
At(s, p, i) ==
    i >= 1 /\ i + Len(p) - 1 <= Len(s) /\ SubSeq(s, i, i + Len(p) - 1) = p

\* The 1-based position of the first occurrence of p in s at or after
\* position from, 0 when there is none (str.find gives position - 1).
findFrom(s, p, from) ==
    FirstOf({ i \in from..(Len(s) - Len(p) + 1) : At(s, p, i) })

find(s, p) ==
    findFrom(s, p, 1)

\* The Python test "p in s".
contains(s, p) ==
    find(s, p) # 0

\* s has a word character at position i.
IsWordAt(s, i) ==
    Ch(s, i) # "" /\ Ch(s, i) \in WordChars

\* \b of the re module at the gap before position i (1-based) of s: exactly
\* one of the characters around the gap is a word character.
WordBoundary(s, i) ==
    IsWordAt(s, i - 1) # IsWordAt(s, i)

\* \b(w1|w2|...)\b matches at position i of s.
WordAt(s, words, i) ==
    \E k \in 1..Len(words) :
        /\ At(s, words[k], i)
        /\ WordBoundary(s, i)
        /\ WordBoundary(s, i + Len(words[k]))

\* re.search(r"\b(w1|w2|...)\b", s): position of the leftmost match, 0 if none.
searchWord(s, words) ==
    FirstOf({ i \in 1..Len(s) : WordAt(s, words, i) })

(***************************************************************************)
(* src/api/sql_safety.py                                                   *)
(***************************************************************************)

TABLE ==
    "daily_product_sales"

\* The clause markers enforce_table looks for.
ClauseMarkers ==
    <<" where ", "\nwhere ", " group ", "\ngroup ",
      " order ", "\norder ", " limit ", "\nlimit ">>

\* The keywords of the blocking regular expression of sanitize.
BlockedWords ==
    <<"drop", "delete", "update", "insert", "merge", "alter", "create",
      "truncate", "grant", "revoke", "vacuum", "attach", "copy">>

\* The loop of enforce_table: the least position of a marker in low, or the
\* length of s when no marker occurs (the 0-based cut of the source).
CutOf(s, low) ==
    MinOf(({ find(low, ClauseMarkers[k]) - 1 : k \in 1..Len(ClauseMarkers) } \ {-1})
              \cup {Len(s)})

\* Line 15 of enforce_table: FROM and the table inserted at the cut.
InsertFrom(s, cut) ==
    strip(SubSeq(s, 1, cut) \o " FROM " \o TABLE \o " " \o From(s, cut + 1),
          Whitespace)

\* Lines 8-15 of enforce_table, for the stripped statement and its lower case.
EnforceOn(s, low) ==
    IF contains(low, TABLE) THEN s ELSE InsertFrom(s, CutOf(s, low))

\* The statement as both functions first normalise it: sql.strip().strip(";")
Stripped(sql) ==
    strip(strip(sql, Whitespace), {";"})

\* Lines 6-7 of enforce_table.
EnforceStripped(s) ==
    EnforceOn(s, lower(s))

enforce_table(sql) ==
    EnforceStripped(Stripped(sql))

\* The exceptions sanitize raises, by their messages.
ErrNotSelect ==
    "Only SELECT/CTE queries are allowed."

ErrDangerous ==
    "Dangerous statement blocked."

\* Lines 26-28 of sanitize: the default limit, s being the statement that
\* enforce_table returned and low the lower case taken before it.
WithLimit(s, low) ==
    IF ~contains(low, "limit") THEN s \o " LIMIT 200" ELSE s

\* A sanitize without the prefix test of lines 20-21: any text that holds no
\* blocked word is accepted.
SanitizeAnyPrefix(s, low) ==
    IF searchWord(low, BlockedWords) # 0
    THEN [ok |-> FALSE, val |-> "", err |-> ErrDangerous]
    ELSE [ok |-> TRUE, val |-> WithLimit(enforce_table(s), low), err |-> ""]

\* A sanitize without the keyword scan of lines 22-23: any statement that
\* starts with select or with is accepted.
SanitizeUnscanned(s, low) ==
    IF ~(startswith(low, "select") \/ startswith(low, "with"))
    THEN [ok |-> FALSE, val |-> "", err |-> ErrNotSelect]
    ELSE [ok |-> TRUE, val |-> WithLimit(enforce_table(s), low), err |-> ""]

\* Lines 20-28 of sanitize as a record: ok tells whether it returns, val is
\* the returned statement, err the message of the ValueError raised.
SanitizeOn(s, low) ==
    IF ~(startswith(low, "select") \/ startswith(low, "with"))
    THEN [ok |-> FALSE, val |-> "", err |-> ErrNotSelect]
    ELSE IF searchWord(low, BlockedWords) # 0
    THEN [ok |-> FALSE, val |-> "", err |-> ErrDangerous]
    ELSE [ok |-> TRUE, val |-> WithLimit(enforce_table(s), low), err |-> ""]

\* Line 19 of sanitize.
SanitizeStripped(s) ==
    SanitizeOn(s, lower(s))

sanitize(sql) ==
    SanitizeStripped(Stripped(sql))

(***************************************************************************)
(* src/api/providers.py: extract_sql                                       *)
(***************************************************************************)

\* The backquote has no spelling in a TLA+ string: every text of this module
\* writes the backquote character as a tilde, and no text uses a tilde for
\* anything else.
Backquote ==
    "~"

\* The code fence of three backquotes.
Fence ==
    Backquote \o Backquote \o Backquote

\* The position reached by a greedy \s* that starts at position i.
skipSpace(s, i) ==
    skipWhile(s, i, Whitespace)

\* The keywords that make a generic fenced block look like SQL.
SqlLookWords ==
    <<"select", "from", "with", "insert", "update", "delete">>

\* The keywords the plain-text rule of extract_sql starts a statement at.
StartWords ==
    <<"select", "with">>

\* The result of re.search: whether it matched, and the group of interest.
NoMatch ==
    [found |-> FALSE, group |-> ""]

Match(group) ==
    [found |-> TRUE, group |-> group]

\* The lazy group (.*?) from position g up to the next fence at position j.
GroupBetween(text, g, j) ==
    IF j = 0 THEN NoMatch ELSE Match(SubSeq(text, g, j - 1))

FenceGroup(text, g) ==
    GroupBetween(text, g, findFrom(text, Fence, g))

\* re.search of <fence>sql\s*(.*?)<fence> with re.I | re.S, group(1): the
\* leftmost opening fence, the whitespace after it, then up to the next fence.
FencedSqlAt(text, i) ==
    IF i = 0 THEN NoMatch ELSE FenceGroup(text, skipSpace(text, i + 6))

FencedSql(text) ==
    FencedSqlAt(text, find(lower(text), Fence \o "sql"))

\* re.search of <fence>(.*?)<fence> with re.S, group(1).
FencedAnyAt(text, i) ==
    IF i = 0 THEN NoMatch ELSE FenceGroup(text, i + 3)

FencedAny(text) ==
    FencedAnyAt(text, find(text, Fence))

\* The end of the lazy .*?(?:;|$) that starts at position after: the first
\* ';' (included), else the end of the text, where $ also matches just
\* before a final newline.
PlainEnd(text, after, semi) ==
    IF semi # 0 THEN semi
    ELSE IF Ch(text, Len(text)) = "\n" /\ Len(text) - 1 >= after - 1
    THEN Len(text) - 1
    ELSE Len(text)

\* The match that starts with the keyword at position i, after being the
\* position behind the keyword.
PlainFrom(text, i, after) ==
    Match(SubSeq(text, i, PlainEnd(text, after, findFrom(text, ";", after))))

PlainAt(text, low, i) ==
    IF i = 0 THEN NoMatch
    ELSE PlainFrom(text, i, i + (IF At(low, "select", i) THEN 6 ELSE 4))

PlainIn(text, low) ==
    PlainAt(text, low, searchWord(low, StartWords))

\* re.search(r"(?is)\b(select|with)\b.*?(?:;|$)", text), group(0).
PlainStatement(text) ==
    PlainIn(text, lower(text))

\* Lines 26-36 of extract_sql, m being the match of the plain-text pattern.
Rule3(m) ==
    IF m.found THEN rstrip(strip(m.group, Whitespace), {";"}) ELSE ""

\* Lines 20-23 of extract_sql, potential being the stripped generic block.
Rule2Block(text, potential) ==
    IF searchWord(lower(potential), SqlLookWords) # 0
    THEN rstrip(potential, {";"})
    ELSE Rule3(PlainStatement(text))

\* Lines 18-23 of extract_sql, m being the match of the generic fence.
Rule2(text, m) ==
    IF m.found THEN Rule2Block(text, strip(m.group, Whitespace))
    ELSE Rule3(PlainStatement(text))

\* Lines 13-15 of extract_sql, m being the match of the SQL fence.
Rule1(text, m) ==
    IF m.found THEN rstrip(strip(m.group, Whitespace), {";"})
    ELSE Rule2(text, FencedAny(text))

extract_sql(text) ==
    Rule1(text, FencedSql(text))

(***************************************************************************)
(* json.loads, as extract_json uses it                                     *)
(***************************************************************************)

\* Values of json.loads: a tag t and a content v.  An object is a function
\* from its keys to values (a later duplicate key wins, as in a dict), an
\* array a sequence of values, a string its text, a number its lexeme, and
\* true, false, null their spelling.
JObject(f) ==
    [t |-> "object", v |-> f]

JString(s) ==
    [t |-> "string", v |-> s]

JNull ==
    [t |-> "null", v |-> "null"]

\* The result of a parsing step: the value read and the position after it,
\* or the failure that json.loads reports as JSONDecodeError.
JFail ==
    [ok |-> FALSE, val |-> JNull, next |-> 0]

JOk(val, next) ==
    [ok |-> TRUE, val |-> val, next |-> next]

\* Whitespace of the json scanner.
JsonSpace ==
    {" ", "\n", "\t", "\r"}

skipJsonSpace(s, i) ==
    skipWhile(s, i, JsonSpace)

skipDigits(s, i) ==
    skipWhile(s, i, CharsOf(DECIMAL))

\* The characters a backslash may escape in the strings of the inputs, with
\* the character each stands for.
JsonEscapes ==
    [c \in {"\"", "\\", "/", "n", "t"} |->
        CASE c = "n" -> "\n" [] c = "t" -> "\t" [] OTHER -> c]

RECURSIVE parseString(_, _, _)
\* The string whose opening quote precedes position i; acc is the text read.
\* A control character inside a string is an error.
parseString(s, i, acc) ==
    IF i > Len(s) THEN JFail
    ELSE IF Ch(s, i) = "\"" THEN JOk(JString(acc), i + 1)
    ELSE IF Ch(s, i) = "\\"
    THEN IF Ch(s, i + 1) # "" /\ Ch(s, i + 1) \in DOMAIN JsonEscapes
         THEN parseString(s, i + 2, acc \o JsonEscapes[Ch(s, i + 1)])
         ELSE JFail
    ELSE IF Ch(s, i) \in {"\n", "\t", "\r"} THEN JFail
    ELSE parseString(s, i + 1, acc \o Ch(s, i))

\* The end of an optional exponent [eE][+-]?\d+ at position e, digits being
\* the position where its digits start.
ExpEnd(s, e, digits) ==
    IF Ch(s, e) # "" /\ Ch(s, e) \in {"e", "E"} /\ skipDigits(s, digits) > digits
    THEN skipDigits(s, digits)
    ELSE e

\* The end of an optional fraction \.\d+ at position d.
FracEnd(s, d) ==
    IF Ch(s, d) = "." /\ skipDigits(s, d + 1) > d + 1 THEN skipDigits(s, d + 1)
    ELSE d

\* The number text[i..last-1].
NumberTo(s, i, last) ==
    JOk([t |-> "number", v |-> SubSeq(s, i, last - 1)], last)

NumberFrac(s, i, f) ==
    NumberTo(s, i, ExpEnd(s, f, IF Ch(s, f + 1) # "" /\ Ch(s, f + 1) \in {"+", "-"}
                                THEN f + 2 ELSE f + 1))

\* d0 is where the integer part starts and d1 where it ends.
NumberInt(s, i, d0, d1) ==
    IF d1 = d0 THEN JFail ELSE NumberFrac(s, i, FracEnd(s, d1))

NumberFrom(s, i, d0) ==
    NumberInt(s, i, d0, IF Ch(s, d0) = "0" THEN d0 + 1 ELSE skipDigits(s, d0))

\* The number that starts at position i: -?(0|[1-9]\d*)(\.\d+)?([eE][+-]?\d+)?
parseNumber(s, i) ==
    NumberFrom(s, i, IF Ch(s, i) = "-" THEN i + 1 ELSE i)

RECURSIVE parseValue(_, _)
RECURSIVE parseMembers(_, _, _)
RECURSIVE parseElements(_, _, _)

\* After a member or an element: a comma and the next one, or the closing.
MemberSep(s, e, f) ==
    IF Ch(s, e) = "," THEN parseMembers(s, e + 1, f)
    ELSE IF Ch(s, e) = "}" THEN JOk(JObject(f), e + 1)
    ELSE JFail

MemberValue(s, key, x, acc) ==
    IF x.ok THEN MemberSep(s, skipJsonSpace(s, x.next), (key :> x.val) @@ acc)
    ELSE JFail

MemberColon(s, key, c, acc) ==
    IF Ch(s, c) = ":" THEN MemberValue(s, key, parseValue(s, c + 1), acc)
    ELSE JFail

MemberKey(s, k, acc) ==
    IF k.ok THEN MemberColon(s, k.val.v, skipJsonSpace(s, k.next), acc)
    ELSE JFail

MemberAt(s, j, acc) ==
    IF Ch(s, j) = "\"" THEN MemberKey(s, parseString(s, j + 1, ""), acc)
    ELSE JFail

\* The members of an object from position i on, one member expected there;
\* acc holds the members read.
parseMembers(s, i, acc) ==
    MemberAt(s, skipJsonSpace(s, i), acc)

ElementSep(s, e, acc) ==
    IF Ch(s, e) = "," THEN parseElements(s, e + 1, acc)
    ELSE IF Ch(s, e) = "]" THEN JOk([t |-> "array", v |-> acc], e + 1)
    ELSE JFail

ElementValue(s, x, acc) ==
    IF x.ok THEN ElementSep(s, skipJsonSpace(s, x.next), Append(acc, x.val))
    ELSE JFail

\* The elements of an array from position i on, one element expected there.
parseElements(s, i, acc) ==
    ElementValue(s, parseValue(s, i), acc)

\* The object whose opening brace precedes position k, whitespace skipped.
ObjectAt(s, k) ==
    IF Ch(s, k) = "}" THEN JOk(JObject(<<>>), k + 1) ELSE parseMembers(s, k, <<>>)

\* The array whose opening bracket precedes position k, whitespace skipped.
ArrayAt(s, k) ==
    IF Ch(s, k) = "]" THEN JOk([t |-> "array", v |-> <<>>], k + 1)
    ELSE parseElements(s, k, <<>>)

ValueAt(s, j) ==
    IF j > Len(s) THEN JFail
    ELSE IF Ch(s, j) = "{" THEN ObjectAt(s, skipJsonSpace(s, j + 1))
    ELSE IF Ch(s, j) = "[" THEN ArrayAt(s, skipJsonSpace(s, j + 1))
    ELSE IF Ch(s, j) = "\"" THEN parseString(s, j + 1, "")
    ELSE IF At(s, "true", j) THEN JOk([t |-> "bool", v |-> "true"], j + 4)
    ELSE IF At(s, "false", j) THEN JOk([t |-> "bool", v |-> "false"], j + 5)
    ELSE IF At(s, "null", j) THEN JOk(JNull, j + 4)
    ELSE parseNumber(s, j)

\* The JSON value that starts at position i, after optional whitespace.
parseValue(s, i) ==
    ValueAt(s, skipJsonSpace(s, i))

\* x is the value read from the start: only whitespace may follow it.
WholeText(s, x) ==
    IF x.ok /\ skipJsonSpace(s, x.next) = Len(s) + 1 THEN x ELSE JFail

\* json.loads(s): ok is FALSE where it raises.
json_loads(s) ==
    WholeText(s, parseValue(s, 1))

(***************************************************************************)
(* src/api/providers.py: extract_json                                      *)
(***************************************************************************)

\* In <fence>json\s*(\{.*?\})\s*<fence>: the position after \s* for the
\* opening fence at position i.
JsonOpen(text, i) ==
    skipSpace(text, i + 7)

\* The positions of a '}' after position g that optional whitespace and a
\* closing fence follow.
JsonEnds(text, g) ==
    { e \in (g + 1)..Len(text) :
         Ch(text, e) = "}" /\ At(text, Fence, skipSpace(text, e + 1)) }

\* The positions where the pattern matches.
JsonStarts(text) ==
    { i \in 1..Len(text) :
         /\ At(text, Fence \o "json", i)
         /\ Ch(text, JsonOpen(text, i)) = "{"
         /\ JsonEnds(text, JsonOpen(text, i)) # {} }

\* The lazy group of the match whose '{' is at position g.
JsonGroup(text, g) ==
    Match(SubSeq(text, g, MinOf(JsonEnds(text, g))))

FencedJsonIn(text, starts) ==
    IF starts = {} THEN NoMatch ELSE JsonGroup(text, JsonOpen(text, MinOf(starts)))

\* re.search of <fence>json\s*(\{.*?\})\s*<fence> with re.S, group(1): the
\* leftmost start, the group ending at the first '}' that can end it.
FencedJson(text) ==
    FencedJsonIn(text, JsonStarts(text))

BraceSpanFrom(blob, i) ==
    IF i = 0 \/ findFrom(blob, "}", i + 1) = 0 THEN NoMatch
    ELSE Match(SubSeq(blob, i, MaxOf({ e \in (i + 1)..Len(blob) : Ch(blob, e) = "}" })))

\* re.search(r"\{.*\}", blob, re.S), group(0): first '{' to the last '}'.
BraceSpan(blob) ==
    BraceSpanFrom(blob, find(blob, "{"))

\* Lines 42 and 44 of extract_json: blob = m.group(...) if m else <before>.
GroupOr(m, otherwise) ==
    IF m.found THEN m.group ELSE otherwise

\* Lines 45-48 of extract_json, x being the result of json.loads(blob).
LoadedOrRaw(text, x) ==
    IF x.ok THEN x.val ELSE JObject("raw" :> JString(text))

Blob1(text) ==
    GroupOr(FencedJson(text), text)

Blob2(blob) ==
    GroupOr(BraceSpan(blob), blob)

extract_json(text) ==
    LoadedOrRaw(text, json_loads(Blob2(Blob1(text))))

(***************************************************************************)
(* src/api/main.py: the helpers of the /execute handler                    *)
(***************************************************************************)

CATEGORY_TOKENS ==
    <<"electronics", "home", "beauty", "sports", "toys">>

\* The dict QUARTER_WINDOWS in its insertion order.
QUARTER_WINDOWS ==
    << [key |-> "Q1", start |-> "2024-01-01", finish |-> "2024-03-31"],
       [key |-> "Q2", start |-> "2024-04-01", finish |-> "2024-06-30"],
       [key |-> "Q3", start |-> "2024-07-01", finish |-> "2024-09-30"],
       [key |-> "Q4", start |-> "2024-10-01", finish |-> "2024-12-31"] >>

\* Line 92, stripped being text.strip().lower().
StartsLikeSql(stripped) ==
    startswith(stripped, "select") \/ startswith(stripped, "with")

\* An _is_sql that knows select only: a statement that starts with a CTE is
\* taken for a question.
IsSelectOnly(text) ==
    startswith(lower(strip(text, Whitespace)), "select")

_is_sql(text) ==
    StartsLikeSql(lower(strip(text, Whitespace)))

\* The characters str.isdigit() accepts, among those of the inputs: the
\* decimal digits and the superscript two, which int() does not convert.
DigitChars ==
    CharsOf(DECIMAL) \cup {"²"}

\* str.isdigit()
isdigit(tok) ==
    tok # "" /\ \A i \in 1..Len(tok) : Ch(tok, i) \in DigitChars

\* int(tok) returns for a token of decimal digits and raises ValueError for
\* a token with another digit character.
IntConverts(tok) ==
    \A i \in 1..Len(tok) : Ch(tok, i) \in CharsOf(DECIMAL)

RECURSIVE IntOf(_)
\* int(tok) for a token of decimal digits.
IntOf(tok) ==
    IF tok = "" THEN 0
    ELSE 10 * IntOf(SubSeq(tok, 1, Len(tok) - 1))
            + (CHOOSE d \in 0..9 : Ch(DECIMAL, d + 1) = Ch(tok, Len(tok)))

RECURSIVE StrOf(_)
\* str(n) for n >= 0, as an f-string formats it.
StrOf(n) ==
    IF n < 10 THEN Ch(DECIMAL, n + 1)
    ELSE StrOf(n \div 10) \o Ch(DECIMAL, (n % 10) + 1)

\* The token of q.split() that starts at position i: a maximal run of
\* characters that are not whitespace.
TokenAt(q, i) ==
    SubSeq(q, i, skipUntil(q, i, Whitespace) - 1)

\* The positions where the tokens of q.split() start.
TokenStarts(q) ==
    { i \in 1..Len(q) :
         Ch(q, i) \notin Whitespace /\ (i = 1 \/ Ch(q, i - 1) \in Whitespace) }

FirstToken(q, starts) ==
    IF starts = {} THEN "" ELSE TokenAt(q, MinOf(starts))

\* Lines 98-101: the first token of q.split() for which isdigit() holds, ""
\* when there is none.
FirstDigitToken(q) ==
    FirstToken(q, { i \in TokenStarts(q) : isdigit(TokenAt(q, i)) })

RECURSIVE JoinAnd(_)
\* " AND ".join(clauses)
JoinAnd(clauses) ==
    IF Len(clauses) = 0 THEN ""
    ELSE IF Len(clauses) = 1 THEN clauses[1]
    ELSE clauses[1] \o " AND " \o JoinAnd(Tail(clauses))

\* Lines 102 and 106-107: cats are the indexes of the categories in ql.
CategoryClause(cats) ==
    IF cats = {} THEN <<>>
    ELSE <<"category = '" \o CATEGORY_TOKENS[MinOf(cats)] \o "'">>

\* Lines 109-112, for the window of the matched quarter.
WindowClause(w) ==
    <<"CAST(day AS DATE) BETWEEN DATE '" \o w.start \o "' AND DATE '"
        \o w.finish \o "'">>

\* A quarter clause for the last of the matched quarters, not the first.
LastQuarterClause(qts) ==
    IF qts = {} THEN <<>> ELSE WindowClause(QUARTER_WINDOWS[MaxOf(qts)])

\* Lines 103 and 108-112: qts are the indexes of the quarters in ql.
QuarterClause(qts) ==
    IF qts = {} THEN <<>> ELSE WindowClause(QUARTER_WINDOWS[MinOf(qts)])

\* Line 114.
WhereOf(where_clauses) ==
    IF where_clauses # <<>> THEN "WHERE " \o JoinAnd(where_clauses) ELSE ""

\* Lines 102-114, ql being q.lower().
WhereSql(ql) ==
    WhereOf(CategoryClause({ k \in 1..Len(CATEGORY_TOKENS) :
                                contains(ql, CATEGORY_TOKENS[k]) })
            \o QuarterClause({ k \in 1..Len(QUARTER_WINDOWS) :
                                  contains(ql, lower(QUARTER_WINDOWS[k].key)) }))

\* A fallback statement that leaves the limit to sanitize.
FallbackWithoutLimit(tok, where_sql) ==
    IF tok # "" /\ ~IntConverts(tok)
    THEN [ok |-> FALSE, val |-> "",
          err |-> "invalid literal for int() with base 10: '" \o tok \o "'"]
    ELSE [ok  |-> TRUE,
          val |-> "SELECT product_title, category, SUM(units) AS units, SUM(revenue) AS revenue\n"
                  \o "FROM daily_product_sales\n"
                  \o where_sql \o "\n"
                  \o "GROUP BY product_title, category\n"
                  \o "ORDER BY revenue DESC;",
          err |-> ""]

\* Lines 97-101 and 115-122 as a record: ok tells whether the function
\* returns, val is the statement, err the ValueError that int() raises.
FallbackFor(tok, where_sql) ==
    IF tok # "" /\ ~IntConverts(tok)
    THEN [ok |-> FALSE, val |-> "",
          err |-> "invalid literal for int() with base 10: '" \o tok \o "'"]
    ELSE [ok  |-> TRUE,
          val |-> "SELECT product_title, category, SUM(units) AS units, SUM(revenue) AS revenue\n"
                  \o "FROM daily_product_sales\n"
                  \o where_sql \o "\n"
                  \o "GROUP BY product_title, category\n"
                  \o "ORDER BY revenue DESC\n"
                  \o "LIMIT " \o StrOf(IF tok = "" THEN 5 ELSE IntOf(tok)) \o ";",
          err |-> ""]

_fallback_sql_from_question(q) ==
    FallbackFor(FirstDigitToken(q), WhereSql(lower(q)))

\* What llm_call gives back: the text of the completion, or the error it
\* raises (missing model id, missing credentials, transport or status error).
LlmText(t) ==
    [ok |-> TRUE, text |-> t, err |-> ""]

LlmError(e) ==
    [ok |-> FALSE, text |-> "", err |-> e]

\* The names under which the calls of a request are logged.
CallGen ==
    "llm_call(gen, PROMPT_GEN)"

CallRev ==
    "llm_call(rev, PROMPT_REV)"

CallChart ==
    "llm_call(gen, PROMPT_DASHBOARD)"

CallExtract ==
    "extract_sql"

CallSanitize ==
    "sanitize"

CallFallback ==
    "_fallback_sql_from_question"

CallEngine ==
    "_con().execute"

\* sanitize applied to the statement the fallback generator returned.
FallbackSanitized(fsan) ==
    [raised |-> fsan.err, sql |-> fsan.val,
     calls |-> <<CallFallback, CallSanitize>>,
     returned |-> IF fsan.ok THEN {fsan.val} ELSE {}]

\* A fallback whose statement skips sanitize on its way to the engine.
FallbackUnsanitized(fb) ==
    IF ~fb.ok
    THEN [raised |-> fb.err, sql |-> "", calls |-> <<CallFallback>>, returned |-> {}]
    ELSE [raised |-> "", sql |-> fb.val, calls |-> <<CallFallback>>, returned |-> {}]

FallbackThen(fb) ==
    IF ~fb.ok
    THEN [raised |-> fb.err, sql |-> "", calls |-> <<CallFallback>>, returned |-> {}]
    ELSE FallbackSanitized(sanitize(fb.val))

\* sanitize(_fallback_sql_from_question(q)), in the except clause of
\* _generate_sql_from_question (line 137) and in the retry of execute
\* (line 223): raised is the message of the exception that escapes, "" when
\* none does; calls and returned log the calls and what sanitize returned.
SanitizedFallback(question) ==
    FallbackThen(_fallback_sql_from_question(question))

\* Lines 132-138: the except clause, after the calls in tried were made and
\* sanitize returned the statements in got.
GenExcept(fb, tried, got) ==
    [raised |-> fb.raised, sql |-> fb.sql, used_fallback |-> fb.raised = "",
     calls |-> tried \o fb.calls, returned |-> got \cup fb.returned]

\* Lines 128-131, san being the result of sanitize(extract_sql(raw_response)).
GenTry(question, san) ==
    IF san.ok /\ san.val # ""
    THEN [raised |-> "", sql |-> san.val, used_fallback |-> FALSE,
          calls |-> <<CallGen, CallExtract, CallSanitize>>, returned |-> {san.val}]
    ELSE GenExcept(SanitizedFallback(question),
                   <<CallGen, CallExtract, CallSanitize>>,
                   IF san.ok THEN {san.val} ELSE {})

\* _generate_sql_from_question for the reply the provider gives: the values
\* it returns (sql, used_fallback), the exception that escapes it (raised),
\* the calls it makes and the statements sanitize returned to it.
_generate_sql_from_question(question, reply) ==
    IF reply.ok THEN GenTry(question, sanitize(extract_sql(reply.text)))
    ELSE GenExcept(SanitizedFallback(question), <<CallGen>>, {})

\* Python None.
None ==
    [t |-> "none", v |-> ""]

\* _review_sql_payload for the reply the provider gives: llm_call is not
\* guarded, so its error escapes; otherwise the value of extract_json.
_review_sql_payload(reply) ==
    IF ~reply.ok THEN [raised |-> reply.err, payload |-> None]
    ELSE [raised |-> "", payload |-> extract_json(reply.text)]

ChartTypes ==
    {"bar", "line", "scatter"}

\* A _chart_suggestion without the tests of lines 159-161: whatever
\* extract_json gives is suggested.
UncheckedSuggestion(suggestion) ==
    suggestion

\* Lines 159-162 and 168, suggestion being the value of extract_json(raw).
CheckedSuggestion(suggestion) ==
    IF /\ suggestion.t = "object"
       /\ "chart_type" \in DOMAIN suggestion.v
       /\ suggestion.v["chart_type"].t = "string"
       /\ suggestion.v["chart_type"].v \in ChartTypes
    THEN suggestion
    ELSE None

\* _chart_suggestion for the rows and, when the provider is called, its
\* reply: every exception is caught inside.
_chart_suggestion(rows, reply) ==
    IF rows = <<>> THEN [value |-> None, calls |-> <<>>]
    ELSE IF ~reply.ok THEN [value |-> None, calls |-> <<CallChart>>]
    ELSE [value |-> CheckedSuggestion(extract_json(reply.text)),
          calls |-> <<CallChart>>]

\* Line 222: the condition of the retry.
Retryable(question, used) ==
    ~_is_sql(question) /\ ~used

\* ExecResponse(sql, rows, review, chart_suggestion) validates: review is
\* declared Dict[str, Any], so any other JSON value is a ValidationError.
ExecResponseValid(review) ==
    review.t = "object"

(***************************************************************************)
(* Inputs                                                                  *)
(***************************************************************************)

\* The largest number of rows the engine returns.
MaxRows ==
    1

\* The records of a result of n rows.
RowsOf(n) ==
    [i \in 1..n |-> [product_title |-> "p" \o StrOf(i), revenue |-> 10 * i]]

\* Questions in natural language, with the blank and the empty text.
Questions ==
    { "Top 5 electronics products by revenue in Q3",
      "best toys",
      "show 3 home items q1",
      "top ² products",
      "  ",
      "" }

\* Direct SQL inputs are a core between optional whitespace and terminators.
DirectPrefixes ==
    {"", " \n"}

DirectCores ==
    { "SELECT * FROM daily_product_sales",
      "SELECT 1; DROP TABLE daily_product_sales",
      "select product_title where units > 3",
      "with t as (select 1) select * from t limit 5",
      "SELECT created_at FROM Daily_Product_Sales",
      "selection of toys",
      "select unlimited\ngroup by 1",
      "select 1 -- update",
      "With x as (delete from daily_product_sales) select 1" }

DirectSuffixes ==
    {"", ";", " ;; ", "; ;"}

DirectInputs ==
    { p \o c \o x : p \in DirectPrefixes, c \in DirectCores, x \in DirectSuffixes }

\* Texts the provider returns for the generation prompt.
GenTexts ==
    { Fence \o "sql\nSELECT category, SUM(revenue) AS revenue FROM daily_product_sales GROUP BY category;\n" \o Fence,
      "Here is the query: SELECT product_title ORDER BY revenue DESC LIMIT 5; hope it helps",
      "I cannot answer that.",
      Fence \o "\nDELETE FROM daily_product_sales\n" \o Fence,
      "SELECT 1; DROP TABLE daily_product_sales",
      Fence \o "sql\nSELECT * FROM daily_product_sales; DROP TABLE daily_product_sales\n" \o Fence }

\* Texts the provider returns for the review prompt.
RevTexts ==
    { "{\"reasoning\": \"looks fine\", \"ok\": true, \"fixed_sql\": \"\"}",
      Fence \o "json\n{\"reasoning\": \"bad\", \"ok\": false, \"fixed_sql\": \"SELECT 1\"}\n" \o Fence,
      "The query looks correct to me.",
      "Sure: {\"ok\": true} thanks",
      "42" }

\* Texts the provider returns for the chart prompt.
ChartTexts ==
    { "{\"chart_type\": \"bar\", \"x_column\": \"category\", \"y_column\": \"revenue\"}",
      "{\"chart_type\": \"pie\", \"x_column\": \"category\", \"y_column\": \"revenue\"}",
      "no idea" }

\* Errors llm_call raises.
ProviderErrors ==
    {"HF_API_KEY not set"}

\* Messages of the exceptions the engine raises.
EngineErrors ==
    {"Parser Error: syntax error", "Binder Error: column not found"}

Replies(texts) ==
    { LlmText(t) : t \in texts } \cup { LlmError(e) : e \in ProviderErrors }

\* What one execution attempt gives: rows, or an exception.
EngineOutcomes ==
    { [ok |-> TRUE, rows |-> RowsOf(n), err |-> ""] : n \in 0..MaxRows }
        \cup { [ok |-> FALSE, rows |-> <<>>, err |-> e] : e \in EngineErrors }

(***************************************************************************)
(* src/api/main.py: the /execute handler as a state machine                *)
(***************************************************************************)

VARIABLES
    pc,               \* where the handler stands
    q,                \* the query parameter
    sql,              \* the local sql
    fallback_used,    \* the local fallback_used
    rows,             \* the local rows
    review_payload,   \* the local review_payload
    chart,            \* the local chart
    status,           \* HTTP status of the outcome, 0 while the request runs
    detail,           \* detail of the HTTP error the caller receives
    raised,           \* message of the exception that ended the request
    exc,              \* message of the exception of the first execution
    executed,         \* the statements handed to the engine, in order
    results,          \* what the engine gave for each of them
    returned,         \* the statements sanitize has returned in this request
    calls,            \* the collaborators called, in order
    gen_reply,        \* what llm_call gave for the generation prompt
    rev_reply         \* what llm_call gave for the review prompt

vars ==
    <<pc, q, sql, fallback_used, rows, review_payload, chart, status, detail,
      raised, exc, executed, results, returned, calls, gen_reply, rev_reply>>

\* The state of one function called on its own: sanitize, extract_sql or
\* _fallback_sql_from_question applied to a text, and sanitize applied to
\* what the function returned.
VARIABLES
    fn,               \* the function called, "" when none is
    arg,              \* the text it is called on
    step,             \* "call" before the call, "returned", then "sanitized"
    ret,              \* what the function gave: [ok, val, err]
    ret2              \* what sanitize gave for ret.val: [ok, val, err]

fvars ==
    <<fn, arg, step, ret, ret2>>

\* The state of several requests to /execute in flight at once.
VARIABLES
    req,              \* the locals of each request, by request
    sessions          \* the engine sessions opened so far, in order

cvars ==
    <<req, sessions>>

\* No result yet.
NoResult ==
    [ok |-> FALSE, val |-> "", err |-> "not called"]

\* No function is called on its own.
FnIdle ==
    /\ fn = ""
    /\ arg = ""
    /\ step = "idle"
    /\ ret = NoResult
    /\ ret2 = NoResult

\* No concurrent requests are in flight.
ConcIdle ==
    /\ req = <<>>
    /\ sessions = <<>>

\* The reply of a call that was not made.
NotCalled ==
    LlmError("not called")

Init ==
    /\ q \in Questions \cup DirectInputs
    /\ pc = "start"
    /\ sql = ""
    /\ fallback_used = FALSE
    /\ rows = <<>>
    /\ review_payload = None
    /\ chart = None
    /\ status = 0
    /\ detail = ""
    /\ raised = ""
    /\ exc = ""
    /\ executed = <<>>
    /\ results = <<>>
    /\ returned = {}
    /\ calls = <<>>
    /\ gen_reply = NotCalled
    /\ rev_reply = NotCalled
    /\ FnIdle
    /\ ConcIdle

\* The request ends with an HTTP error: an HTTPException gives its own
\* status and detail, any other exception is answered with status 500.
Abort(code, message, exception) ==
    /\ pc' = "done"
    /\ status' = code
    /\ detail' = message
    /\ raised' = exception

InternalError ==
    "Internal Server Error"

\* Lines 210-211: blank input is refused.
Refuse ==
    /\ pc = "start"
    /\ strip(q, Whitespace) = ""
    /\ Abort(422, "Query text is required.", "HTTPException")
    /\ UNCHANGED <<q, sql, fallback_used, rows, review_payload, chart, exc,
                   executed, results, returned, calls, gen_reply, rev_reply>>
    /\ UNCHANGED <<fvars, cvars>>

\* Lines 213-215: direct SQL is sanitized; a ValueError of sanitize is not
\* caught by the handler.
DirectSQL ==
    /\ pc = "start"
    /\ strip(q, Whitespace) # ""
    /\ _is_sql(q)
    /\ \E san \in {sanitize(q)} :
           /\ calls' = Append(calls, CallSanitize)
           /\ IF san.ok
              THEN /\ sql' = san.val
                   /\ returned' = returned \cup {san.val}
                   /\ pc' = "execute"
                   /\ UNCHANGED <<status, detail, raised>>
              ELSE /\ Abort(500, InternalError, san.err)
                   /\ UNCHANGED <<sql, returned>>
    /\ UNCHANGED <<q, fallback_used, rows, review_payload, chart, exc, executed,
                   results, gen_reply, rev_reply>>
    /\ UNCHANGED <<fvars, cvars>>

\* Lines 216-217: the statement is generated from the question.
Generate ==
    /\ pc = "start"
    /\ strip(q, Whitespace) # ""
    /\ ~_is_sql(q)
    /\ \E reply \in Replies(GenTexts) :
         \E g \in {_generate_sql_from_question(q, reply)} :
             /\ calls' = calls \o g.calls
             /\ returned' = returned \cup g.returned
             /\ gen_reply' = reply
             /\ IF g.raised = ""
                THEN /\ sql' = g.sql
                     /\ fallback_used' = g.used_fallback
                     /\ pc' = "execute"
                     /\ UNCHANGED <<status, detail, raised>>
                ELSE /\ Abort(500, InternalError, g.raised)
                     /\ UNCHANGED <<sql, fallback_used>>
    /\ UNCHANGED <<q, rows, review_payload, chart, exc, executed, results,
                   rev_reply>>
    /\ UNCHANGED <<fvars, cvars>>

\* Lines 219-230 up to the second engine call: the first execution, and the
\* except clause that either prepares the retry or raises HTTP 400.
Execute ==
    /\ pc = "execute"
    /\ \E out \in EngineOutcomes :
         /\ executed' = Append(executed, sql)
         /\ results' = Append(results, out)
         /\ IF out.ok
            THEN /\ rows' = out.rows
                 /\ pc' = "review"
                 /\ calls' = Append(calls, CallEngine)
                 /\ UNCHANGED <<sql, fallback_used, status, detail, raised, exc,
                                returned>>
            ELSE IF Retryable(q, fallback_used)
            THEN \E fb \in {SanitizedFallback(q)} :
                     /\ calls' = Append(calls, CallEngine) \o fb.calls
                     /\ returned' = returned \cup fb.returned
                     /\ exc' = out.err
                     /\ IF fb.raised = ""
                        THEN /\ sql' = fb.sql
                             /\ fallback_used' = TRUE
                             /\ pc' = "retry"
                             /\ UNCHANGED <<status, detail, raised>>
                        ELSE /\ Abort(500, InternalError, fb.raised)
                             /\ UNCHANGED <<sql, fallback_used>>
                     /\ UNCHANGED rows
            ELSE /\ Abort(400, "SQL Execution Error: " \o out.err, "HTTPException")
                 /\ exc' = out.err
                 /\ calls' = Append(calls, CallEngine)
                 /\ UNCHANGED <<sql, fallback_used, rows, returned>>
    /\ UNCHANGED <<q, review_payload, chart, gen_reply, rev_reply>>
    /\ UNCHANGED <<fvars, cvars>>

\* Line 225: the second execution, inside the except clause; an exception
\* of the engine is not caught there.
Retry ==
    /\ pc = "retry"
    /\ \E out \in EngineOutcomes :
         /\ executed' = Append(executed, sql)
         /\ results' = Append(results, out)
         /\ calls' = Append(calls, CallEngine)
         /\ IF out.ok
            THEN /\ rows' = out.rows
                 /\ pc' = "review"
                 /\ UNCHANGED <<status, detail, raised>>
            ELSE /\ Abort(500, InternalError, out.err)
                 /\ UNCHANGED rows
    /\ UNCHANGED <<q, sql, fallback_used, review_payload, chart, exc, returned,
                   gen_reply, rev_reply>>
    /\ UNCHANGED <<fvars, cvars>>

\* Lines 232-234: the review; an exception of llm_call is not caught.
Review ==
    /\ pc = "review"
    /\ \E reply \in Replies(RevTexts) :
         \E r \in {_review_sql_payload(reply)} :
             /\ calls' = Append(calls, CallRev)
             /\ rev_reply' = reply
             /\ IF r.raised = ""
                THEN /\ review_payload' = r.payload
                     /\ pc' = "chart"
                     /\ UNCHANGED <<status, detail, raised>>
                ELSE /\ Abort(500, InternalError, r.raised)
                     /\ UNCHANGED review_payload
    /\ UNCHANGED <<q, sql, fallback_used, rows, chart, exc, executed, results,
                   returned, gen_reply>>
    /\ UNCHANGED <<fvars, cvars>>

\* Lines 235-236: the chart suggestion and the response.
Respond ==
    /\ pc = "chart"
    /\ \E reply \in Replies(ChartTexts) :
         \E c \in {_chart_suggestion(rows, reply)} :
             /\ calls' = calls \o c.calls
             /\ chart' = c.value
             /\ IF ExecResponseValid(review_payload)
                THEN /\ pc' = "done"
                     /\ status' = 200
                     /\ UNCHANGED <<detail, raised>>
                ELSE Abort(500, InternalError, "ValidationError")
    /\ UNCHANGED <<q, sql, fallback_used, rows, review_payload, exc, executed,
                   results, returned, gen_reply, rev_reply>>
    /\ UNCHANGED <<fvars, cvars>>

Next ==
    \/ Refuse
    \/ DirectSQL
    \/ Generate
    \/ Execute
    \/ Retry
    \/ Review
    \/ Respond

Spec ==
    Init /\ [][Next]_vars

TypeOK ==
    /\ pc \in {"start", "execute", "retry", "review", "chart", "done"}
    /\ status \in {0, 200, 400, 422, 500}
    /\ fallback_used \in BOOLEAN
    /\ Len(executed) <= 2

(***************************************************************************)
(* sanitize, extract_sql and _fallback_sql_from_question called on a text  *)
(***************************************************************************)

\* Statements sanitize is called on: a core between optional whitespace and
\* statement terminators.
StatementPrefixes ==
    {"", " \n"}

StatementCores ==
    { "SELECT * FROM daily_product_sales",
      "select * from daily_product_sales limit 5",
      "select product_title where units > 3",
      "select product_title\twhere units > 3",
      "select unlimited\ngroup by 1",
      "SELECT date_trunc('month', '2024-07-01') FROM daily_product_sales",
      "select product_title\nORDER BY revenue LIMIT 3",
      "SELECT category Group By category Where units > 3",
      "with t as (select 1) select * from t",
      "SELECT 1; DROP TABLE daily_product_sales",
      "show toys" }

StatementSuffixes ==
    {"", ";", " ; ;", " ;; "}

Statements ==
    { p \o c \o x : p \in StatementPrefixes, c \in StatementCores,
                    x \in StatementSuffixes }

\* Questions _fallback_sql_from_question is called on.
FallbackQuestions ==
    Questions \cup
    { "compare Q3 and Q1 sales",
      "toys and electronics in q2",
      "TOP 10 BEAUTY Q4",
      "sports 2024 top 7",
      "top-5 toys",
      "first 007 of 12",
      "what sold" }

\* Texts of the model extract_sql is called on.
ModelTexts ==
    GenTexts \cup
    { Fence \o "\nhello\n" \o Fence \o "\n" \o Fence \o "\nSELECT 1\n" \o Fence,
      Fence \o "\nSELECT 2\n" \o Fence \o "\n" \o Fence \o "sql\nSELECT 1;\n" \o Fence,
      "SELECT 9; " \o Fence \o "SQL\nSELECT 1;;\n" \o Fence,
      Fence \o "\nwith t as (select 1) select * from t;\n" \o Fence \o " or SELECT 3",
      Fence \o "\nhello\n" \o Fence,
      "I would go with the following: SELECT 1",
      "Use select units from daily_product_sales\n",
      "" }

\* The texts a function is called on.
ArgsOf(f) ==
    IF f = CallSanitize THEN Statements
    ELSE IF f = CallFallback THEN FallbackQuestions
    ELSE ModelTexts

\* No request is handled.
HandlerIdle ==
    /\ q = ""
    /\ pc = "idle"
    /\ sql = ""
    /\ fallback_used = FALSE
    /\ rows = <<>>
    /\ review_payload = None
    /\ chart = None
    /\ status = 0
    /\ detail = ""
    /\ raised = ""
    /\ exc = ""
    /\ executed = <<>>
    /\ results = <<>>
    /\ returned = {}
    /\ calls = <<>>
    /\ gen_reply = NotCalled
    /\ rev_reply = NotCalled

FnInit ==
    /\ fn \in {CallSanitize, CallFallback, CallExtract}
    /\ arg \in ArgsOf(fn)
    /\ step = "call"
    /\ ret = NoResult
    /\ ret2 = NoResult
    /\ HandlerIdle
    /\ ConcIdle

\* The function returns ret' or raises.
Returns ==
    /\ step' = "returned"
    /\ UNCHANGED <<fn, arg, ret2>>
    /\ UNCHANGED <<vars, cvars>>

\* sanitize(arg)
ApplySanitize ==
    /\ step = "call"
    /\ fn = CallSanitize
    /\ ret' = sanitize(arg)
    /\ Returns

\* extract_sql(arg), which raises nothing.
ApplyExtract ==
    /\ step = "call"
    /\ fn = CallExtract
    /\ ret' = [ok |-> TRUE, val |-> extract_sql(arg), err |-> ""]
    /\ Returns

\* _fallback_sql_from_question(arg)
ApplyFallback ==
    /\ step = "call"
    /\ fn = CallFallback
    /\ ret' = _fallback_sql_from_question(arg)
    /\ Returns

\* sanitize applied to what the function returned: sanitize(sanitize(arg)),
\* sanitize(extract_sql(arg)) and sanitize(_fallback_sql_from_question(arg)).
Resanitize ==
    /\ step = "returned"
    /\ ret.ok
    /\ ret2' = sanitize(ret.val)
    /\ step' = "sanitized"
    /\ UNCHANGED <<fn, arg, ret>>
    /\ UNCHANGED <<vars, cvars>>

FnNext ==
    \/ ApplySanitize
    \/ ApplyExtract
    \/ ApplyFallback
    \/ Resanitize

FnSpec ==
    FnInit /\ [][FnNext]_fvars

(***************************************************************************)
(* Properties of the /execute handler                                      *)
(***************************************************************************)

\* The request is direct SQL: its text, trimmed and in lower case, starts
\* with select or with.
DirectRequest ==
    \/ startswith(lower(strip(q, Whitespace)), "select")
    \/ startswith(lower(strip(q, Whitespace)), "with")

\* The request is a question: not blank and not direct SQL.
QuestionRequest ==
    strip(q, Whitespace) # "" /\ ~DirectRequest

\* The calls of this request made so far.
Called ==
    { calls[i] : i \in 1..Len(calls) }

\* C1: every statement handed to the execution engine, the first attempt
\* and the retry alike, is a value that sanitize returned in this request.
ExecutedAreSanitized ==
    \A i \in 1..Len(executed) : executed[i] \in returned

\* A request answered after two executions, the second one of the fallback
\* statement that sanitize returned.
RetriedWithSanitized ==
    /\ pc = "done"
    /\ status = 200
    /\ Len(executed) = 2
    /\ executed[1] # executed[2]
    /\ executed[2] \in returned

BlockedDirectIsTerminal ==
    (DirectRequest /\ searchWord(lower(q), BlockedWords) # 0) =>
        /\ ~sanitize(q).ok
        /\ executed = <<>>
        /\ returned = {}
        /\ sql = ""
        /\ CallEngine \notin Called
        /\ CallFallback \notin Called
        /\ pc \in {"start", "done"}
        /\ pc = "done" => (status # 200 /\ raised = ErrDangerous)

\* A request that starts with SELECT and goes on with DROP TABLE has ended
\* on the rejection of sanitize.
DropAfterSelectRejected ==
    /\ pc = "done"
    /\ startswith(lower(q), "select")
    /\ contains(lower(q), "drop table")
    /\ raised = ErrDangerous
    /\ Called = {CallSanitize}

\* C4: when sanitize rejects the direct SQL of a request, the caller gets a
\* client error, a status of the 4xx class.
UnsafeDirectIsClientError ==
    (pc = "done" /\ DirectRequest /\ ~sanitize(q).ok) => status \in 400..499

\* The retry that the first failure of a statement must lead to, for the
\* statement sanitize returns for the fallback of the question.
RetriesWith(san) ==
    /\ pc' = "retry"
    /\ san.ok
    /\ sql' = san.val

\* What the first execution failure leads to: the retry with the sanitized
\* fallback when the statement came from the model, the error otherwise.
FirstFailureStep ==
    (pc = "execute" /\ ~results'[1].ok) =>
        IF ~DirectRequest /\ ~fallback_used
        THEN RetriesWith(sanitize(_fallback_sql_from_question(q).val))
        ELSE pc' = "done" /\ executed' = <<sql>>

\* The retry executes the substituted statement once more, and once only.
RetryStep ==
    pc = "retry" =>
        /\ executed' = <<executed[1], sql>>
        /\ pc' \in {"review", "done"}

\* C5: the first execution failure is retried if and only if the statement
\* came from the model (the input is not direct SQL and the fallback was not
\* used); the retry runs the sanitized fallback statement exactly once; a
\* response after a successful retry carries the fallback statement and its
\* rows and nothing of the first error; no request executes more than twice.
RetryOnceOnModelPath ==
    /\ [](Len(executed) <= 2)
    /\ [][FirstFailureStep /\ RetryStep]_vars
    /\ []((pc = "done" /\ status = 200 /\ Len(executed) = 2) =>
             /\ sql = executed[2]
             /\ rows = results[2].rows
             /\ detail = "")

\* C6: when the retry with the fallback statement fails too, the caller
\* gets the execution error as a client error with the diagnostic of the
\* engine, as for a statement that is not retried.
RetryFailureIsExecutionError ==
    (pc = "done" /\ Len(results) = 2 /\ ~results[2].ok) =>
        /\ status \in 400..499
        /\ detail = "SQL Execution Error: " \o results[2].err

\* C7: once the final statement has been executed with success, the request
\* is answered with a review verdict: a failure of the provider during the
\* review, or a review text that is not JSON, does not abort the request.
ReviewNeverAborts ==
    (pc = "done" /\ results # <<>> /\ results[Len(results)].ok) =>
        /\ status = 200
        /\ review_payload.t = "object"

\* The verdict for a review text that cannot be parsed.
DegradedVerdict(text) ==
    JObject("reasoning" :> JString(text)
            @@ "ok" :> [t |-> "bool", v |-> "false"]
            @@ "fixed_sql" :> JString(""))

\* The keys of a JSON value, none when it is not an object.
KeysOf(value) ==
    IF value.t = "object" THEN DOMAIN value.v ELSE {}

\* C8: a review text in plain prose, which cannot be parsed as JSON, gives
\* the verdict {reasoning: the raw text, ok: false, fixed_sql: ""}, and every
\* verdict has the three keys reasoning, ok and fixed_sql.
ProseReviewIsDegradedVerdict ==
    (pc \in {"chart", "done"} /\ rev_reply.ok) =>
        /\ KeysOf(review_payload) = {"reasoning", "ok", "fixed_sql"}
        /\ ~contains(rev_reply.text, "{") =>
               review_payload = DegradedVerdict(rev_reply.text)

\* What the generation stage makes of the reply of the provider: the result
\* of sanitize on the extracted text, a failure when the provider raised.
GenerationOutcome(reply) ==
    IF reply.ok THEN sanitize(extract_sql(reply.text))
    ELSE [ok |-> FALSE, val |-> "", err |-> reply.err]

\* The statement and the flag the generation stage must hand on.
GenerationHandsOn(san) ==
    IF san.ok /\ san.val # ""
    THEN ~fallback_used /\ sql = san.val
    ELSE /\ fallback_used
         /\ sanitize(_fallback_sql_from_question(q).val).ok
         /\ sql = sanitize(_fallback_sql_from_question(q).val).val

\* C9: for a question, any failure of the generation stage (provider error,
\* empty extraction, rejection by sanitize) continues with the sanitized
\* fallback statement and the fallback flag set, and no error of that stage
\* reaches the caller; when generation succeeds the flag is false and the
\* statement is the sanitized extraction of the model text.
GenerationFailureFallsBack ==
    (QuestionRequest /\ pc # "start") =>
        /\ executed # <<>> \/ pc = "execute"
        /\ pc = "execute" => GenerationHandsOn(GenerationOutcome(gen_reply))

\* C10: for an input that starts with select or with, after trimming and in
\* any case, generation is skipped: the provider is not called for
\* generation, neither the extractor nor the fallback generator is called,
\* and the statement executed is sanitize of the input text itself.
DirectSkipsGeneration ==
    DirectRequest =>
        /\ gen_reply = NotCalled
        /\ Called \cap {CallGen, CallExtract, CallFallback} = {}
        /\ ~fallback_used
        /\ executed # <<>> => (sanitize(q).ok /\ executed = <<sanitize(q).val>>)

\* A direct request that starts with a CTE was answered after the one
\* execution of the statement sanitize made of it.
DirectCteAnswered ==
    /\ pc = "done"
    /\ status = 200
    /\ startswith(lower(strip(q, Whitespace)), "with")
    /\ executed = <<sanitize(q).val>>
    /\ executed[1] # q
    /\ CallGen \notin Called

(***************************************************************************)
(* Properties of sanitize, extract_sql and _fallback_sql_from_question     *)
(***************************************************************************)

\* sanitize was called on arg and returned ret.val.
SanitizeReturned ==
    fn = CallSanitize /\ step # "call" /\ ret.ok

\* s ends with p.
endswith(s, p) ==
    Len(s) >= Len(p) /\ From(s, Len(s) - Len(p) + 1) = p

RECURSIVE despace(_)
\* s without its whitespace, the text taken by halves.
despace(s) ==
    IF Len(s) = 0 THEN ""
    ELSE IF Len(s) = 1 THEN (IF s \in Whitespace THEN "" ELSE s)
    ELSE despace(SubSeq(s, 1, Len(s) \div 2))
             \o despace(SubSeq(s, (Len(s) \div 2) + 1, Len(s)))

\* The number of LIMIT keywords of a statement in lower case.
LimitClauses(low) ==
    Cardinality({ i \in 1..Len(low) : WordAt(low, <<"limit">>, i) })

\* C11: every statement sanitize returns holds a LIMIT clause: to a
\* statement that has none " LIMIT 200" is appended, to a statement that has
\* one nothing is appended.
SanitizedHaveLimit ==
    SanitizeReturned =>
        /\ LimitClauses(lower(ret.val)) >= 1
        /\ IF LimitClauses(lower(arg)) = 0
           THEN endswith(ret.val, " LIMIT 200") /\ LimitClauses(lower(ret.val)) = 1
           ELSE LimitClauses(lower(ret.val)) = LimitClauses(lower(arg))

\* C12: sanitize is idempotent: called on a statement it returned, it returns
\* again, and returns the identical statement.
SanitizeIsIdempotent ==
    (fn = CallSanitize /\ step = "sanitized") =>
        /\ ret2.ok
        /\ ret2.val = ret.val

\* A date in the shape YYYY-MM-DD.
IsDateLiteral(d) ==
    /\ Len(d) = 10
    /\ \A i \in {1, 2, 3, 4, 6, 7, 9, 10} : Ch(d, i) \in CharsOf(DECIMAL)
    /\ Ch(d, 5) = "-"
    /\ Ch(d, 8) = "-"

\* After the unit that ends at the quote at position j: a comma, optional
\* whitespace and a quoted date that closes the call.
BareDateArgument(low, j, k) ==
    /\ j # 0
    /\ At(low, "',", j)
    /\ Ch(low, k) = "'"
    /\ IsDateLiteral(SubSeq(low, k + 1, k + 10))
    /\ At(low, "')", k + 11)

\* A call date_trunc('<unit>', '<YYYY-MM-DD>') starts at position i of low.
BareDateTruncAt(low, i, j) ==
    /\ At(low, "date_trunc('", i)
    /\ BareDateArgument(low, j, skipSpace(low, j + 2))

\* C13: no statement sanitize returns passes a bare text date literal to
\* date_trunc: every call date_trunc('<unit>', '<YYYY-MM-DD>') was rewritten
\* with the literal in a date cast.
NoBareDateTrunc ==
    SanitizeReturned =>
        \A i \in 1..Len(ret.val) :
            ~BareDateTruncAt(lower(ret.val), i, findFrom(lower(ret.val), "'", i + 12))

\* The keywords that open the clauses FROM goes before.
ClauseWords ==
    <<"where", "group", "order", "limit">>

\* The position of the earliest clause keyword of low that follows
\* whitespace, 0 when there is none.
FirstBoundary(low) ==
    FirstOf({ i \in 2..Len(low) :
                 Ch(low, i - 1) \in Whitespace /\ WordAt(low, ClauseWords, i) })

\* s with FROM and the table before position k, at the end when k is 0.
WithFromAt(s, k) ==
    IF k = 0 THEN s \o " FROM " \o TABLE
    ELSE SubSeq(s, 1, k - 1) \o " FROM " \o TABLE \o " " \o From(s, k)

\* The statement s with the table it must reference.
ExpectedEnforced(s) ==
    IF contains(lower(s), TABLE) THEN s ELSE WithFromAt(s, FirstBoundary(lower(s)))

\* C19: every statement sanitize returns references daily_product_sales: a
\* statement that names it gets no FROM, another gets FROM daily_product_sales
\* right before the earliest of its WHERE, GROUP BY, ORDER BY and LIMIT
\* clauses, in any letter case, or at its end when it has none (the
\* statements compared without their whitespace, up to the appended limit).
SanitizedReferenceTable ==
    SanitizeReturned =>
        /\ contains(lower(ret.val), TABLE)
        /\ startswith(despace(ret.val),
                      despace(ExpectedEnforced(strip(arg, Whitespace \cup {";"}))))

\* The chart suggestion is an object whose chart_type is of the enumeration.
SuggestionInEnum ==
    /\ chart.t = "object"
    /\ "chart_type" \in DOMAIN chart.v
    /\ chart.v["chart_type"].t = "string"
    /\ chart.v["chart_type"].v \in {"bar", "line", "scatter"}

\* The step of the chart suggestion ends a request whose review is an
\* object with the response, whatever the provider gives for the chart.
ChartStep ==
    (pc = "chart" /\ review_payload.t = "object") =>
        /\ pc' = "done"
        /\ status' = 200
        /\ detail' = ""
        /\ sql' = sql
        /\ rows' = rows
        /\ review_payload' = review_payload

\* C14: the response carries a chart suggestion only for rows that are not
\* empty and a parsed object whose chart_type is bar, line or scatter; for
\* empty rows the provider is not called for a chart; a provider failure, an
\* unparsable text or another chart_type gives no suggestion and never makes
\* an error of a successful response.
ChartIsOptional ==
    /\ [](chart # None => (rows # <<>> /\ SuggestionInEnum))
    /\ [](CallChart \in Called => rows # <<>>)
    /\ [][ChartStep]_vars

\* A request was answered with rows and a bar chart suggested for them.
BarChartSuggested ==
    /\ pc = "done"
    /\ status = 200
    /\ rows # <<>>
    /\ chart.t = "object"
    /\ chart.v["chart_type"] = JString("bar")

\* _fallback_sql_from_question was called on arg and is done.
FallbackCalled ==
    fn = CallFallback /\ step # "call"

\* A text for comparison modulo formatting: without whitespace, without the
\* trailing statement terminator, in lower case.
Unformatted(s) ==
    lower(rstrip(despace(s), {";"}))

\* The number n the statement must limit to: the first token of the question
\* made of decimal digits, 5 when there is none.
ExpectedLimit(tok) ==
    IF tok = "" THEN 5 ELSE IntOf(tok)

ExpectedLimitOf(question) ==
    ExpectedLimit(FirstToken(question,
        { i \in TokenStarts(question) :
             TokenAt(question, i) # ""
             /\ CharsOf(TokenAt(question, i)) \subseteq CharsOf(DECIMAL) }))

\* The vocabulary categories the statement s holds a predicate for.
CategoriesIn(s) ==
    { k \in 1..Len(CATEGORY_TOKENS) :
         contains(s, "category = '" \o CATEGORY_TOKENS[k] \o "'") }

\* The vocabulary categories that occur in the question, in any case.
CategoriesOf(question) ==
    { k \in 1..Len(CATEGORY_TOKENS) : contains(lower(question), CATEGORY_TOKENS[k]) }

\* The statement of Scenario A.
ScenarioA ==
    "SELECT product_title, category, SUM(units) AS units, SUM(revenue) AS revenue "
    \o "FROM daily_product_sales "
    \o "WHERE category = 'electronics' AND day BETWEEN DATE '2024-07-01' AND DATE '2024-09-30' "
    \o "GROUP BY product_title, category ORDER BY revenue DESC LIMIT 5;"

\* The shape of the fallback statement s for the limit n.
FallbackShape(s, n) ==
    /\ startswith(s, Unformatted(
           "SELECT product_title, category, SUM(units) AS units, SUM(revenue) AS revenue"
           \o " FROM daily_product_sales"))
    /\ endswith(s, Unformatted(
           "GROUP BY product_title, category ORDER BY revenue DESC LIMIT " \o StrOf(n)))

\* C15: for any question the fallback generator returns the aggregate over
\* daily_product_sales grouped by product and category, ordered by revenue,
\* limited to the first numeric token of the question or to 5; it holds a
\* category predicate for at most one category, present exactly when a
\* category of the vocabulary occurs in the question; for the question of
\* Scenario A it is the statement of Scenario A modulo formatting.
FallbackIsTopNByRevenue ==
    FallbackCalled =>
        /\ ret.ok
        /\ FallbackShape(Unformatted(ret.val), ExpectedLimitOf(arg))
        /\ Cardinality(CategoriesIn(ret.val)) <= 1
        /\ CategoriesIn(ret.val) \subseteq CategoriesOf(arg)
        /\ CategoriesIn(ret.val) = {} <=> CategoriesOf(arg) = {}
        /\ arg = "Top 5 electronics products by revenue in Q3" =>
               Unformatted(ret.val) = Unformatted(ScenarioA)

\* The date range of quarter k as the statement writes it.
RangeOf(k) ==
    <<"BETWEEN DATE '2024-01-01' AND DATE '2024-03-31'",
      "BETWEEN DATE '2024-04-01' AND DATE '2024-06-30'",
      "BETWEEN DATE '2024-07-01' AND DATE '2024-09-30'",
      "BETWEEN DATE '2024-10-01' AND DATE '2024-12-31'">>[k]

\* The quarters whose token Qk occurs in the question, in any case.
QuartersOf(question) ==
    { k \in 1..4 : contains(lower(question), "q" \o StrOf(k)) }

\* The number of date predicates of the statement s.
DatePredicates(s) ==
    Cardinality({ i \in 1..Len(s) : At(s, "BETWEEN", i) })

\* C16 as stated: for every quarter token Qk that occurs in the question the
\* date predicate of the statement is the 2024 range of Qk; the statement
\* has at most one date predicate, and none when no token occurs.
EveryQuarterTokenGivesItsRange ==
    (FallbackCalled /\ ret.ok) =>
        /\ \A k \in QuartersOf(arg) : contains(ret.val, RangeOf(k))
        /\ DatePredicates(ret.val) <= 1
        /\ QuartersOf(arg) = {} => DatePredicates(ret.val) = 0

\* C16: every statement the fallback generator returns for a question in
\* which a quarter token occurs has exactly one date predicate, the 2024
\* range of the first quarter of Q1..Q4 whose token occurs; it has no date
\* predicate when no token occurs.
FirstQuarterTokenGivesItsRange ==
    (FallbackCalled /\ ret.ok) =>
        IF QuartersOf(arg) = {} THEN DatePredicates(ret.val) = 0
        ELSE /\ DatePredicates(ret.val) = 1
             /\ contains(ret.val, RangeOf(MinOf(QuartersOf(arg))))

\* A question that names Q3 before Q1 got the range of Q1.
TwoQuartersGiveTheFirst ==
    /\ FallbackCalled
    /\ ret.ok
    /\ QuartersOf(arg) = {1, 3}
    /\ contains(ret.val, RangeOf(1))
    /\ ~contains(ret.val, "2024-07-01")

\* C17: sanitize accepts every statement the fallback generator returns and
\* returns it unchanged in content: no FROM injected, no LIMIT appended, only
\* the surrounding whitespace and the trailing terminator removed.
FallbackPassesSanitize ==
    (fn = CallFallback /\ step = "sanitized") =>
        /\ ret2.ok
        /\ ret2.val = strip(ret.val, Whitespace \cup {";"})

\* sanitize returned the fallback statement of a question with a category,
\* less its terminator.
FallbackSanitizedUnchanged ==
    /\ fn = CallFallback
    /\ step = "sanitized"
    /\ CategoriesOf(arg) # {}
    /\ ret2.ok
    /\ ret.val = ret2.val \o ";"

\* The positions of the code fences of a text.
FencesOf(text) ==
    { i \in 1..Len(text) : At(text, Fence, i) }

\* The n-th least element of a set of positions.
Nth(S, n) ==
    CHOOSE x \in S : Cardinality({ y \in S : y < x }) = n - 1

\* The contents of the k-th fenced block, between fences 2k-1 and 2k of F.
BlockOf(text, F, k) ==
    SubSeq(text, Nth(F, 2 * k - 1) + 3, Nth(F, 2 * k) - 1)

\* The contents of the fenced blocks of a text, in order.
BlocksOf(text) ==
    [k \in 1..(Cardinality(FencesOf(text)) \div 2) |-> BlockOf(text, FencesOf(text), k)]

\* A text trimmed, its trailing statement terminators removed.
Trimmed(s) ==
    rstrip(strip(s, Whitespace), {";"})

\* The text of a plain statement: up to its terminator, or to the end.
UpToTerminator(s) ==
    IF contains(s, ";") THEN SubSeq(s, 1, find(s, ";") - 1) ELSE s

\* The blocks tagged as SQL, and the blocks that hold a keyword of SQL.
TaggedBlocks(blocks) ==
    { k \in 1..Len(blocks) : startswith(lower(blocks[k]), "sql") }

KeywordBlocks(blocks) ==
    { k \in 1..Len(blocks) :
         searchWord(lower(blocks[k]), <<"select", "from", "with", "insert", "update", "delete">>) # 0 }

\* The rules of extraction in their order of priority.
ExpectedExtract(text, blocks) ==
    IF TaggedBlocks(blocks) # {}
    THEN Trimmed(From(blocks[MinOf(TaggedBlocks(blocks))], 4))
    ELSE IF KeywordBlocks(blocks) # {}
    THEN Trimmed(blocks[MinOf(KeywordBlocks(blocks))])
    ELSE IF searchWord(lower(text), <<"select", "with">>) # 0
    THEN Trimmed(UpToTerminator(From(text, searchWord(lower(text), <<"select", "with">>))))
    ELSE ""

\* C20: extract_sql applies its rules in strict order: the contents of a
\* block tagged as SQL, trimmed and without the trailing terminator, even
\* after a generic block or a bare SELECT; else the trimmed contents of a
\* fenced block that holds one of select, from, with, insert, update, delete;
\* else the text from the first standalone select or with on, trimmed and
\* without terminator; else the empty text.
ExtractFollowsPriority ==
    (fn = CallExtract /\ step # "call") =>
        Trimmed(ret.val) = ExpectedExtract(arg, BlocksOf(arg))

(***************************************************************************)
(* src/api/main.py: several requests to /execute in flight at once         *)
(***************************************************************************)

\* The number of requests in flight.
NumRequests ==
    2

Requests ==
    1..NumRequests

\* The texts of the concurrent requests and the replies of the provider.
ConcInputs ==
    { "SELECT created_at FROM Daily_Product_Sales",
      "best toys" }

ConcGenReplies ==
    { LlmText("SELECT created_at FROM daily_product_sales"),
      LlmError("HF_API_KEY not set") }

ConcRevReplies ==
    { LlmText("{\"reasoning\": \"looks fine\", \"ok\": true, \"fixed_sql\": \"\"}"),
      LlmError("HF_API_KEY not set") }

ConcChartReplies ==
    { LlmText("{\"chart_type\": \"bar\", \"x_column\": \"category\", \"y_column\": \"revenue\"}") }

\* The session duckdb.connect() creates for request r, with the data frame
\* registered as daily_product_sales: a database of its own, in memory.
NewSession(r) ==
    [owner |-> r, tables |-> {TABLE}, open |-> TRUE, users |-> {}, runs |-> 0]

\* One session for all requests: the first one opened is handed out again.
ConnectShared(ss, r) ==
    IF ss = <<>> THEN <<NewSession(r)>> ELSE ss

\* _con(): the sessions after the call; the connection it returns is the
\* last of them.
Connect(ss, r) ==
    Append(ss, NewSession(r))

\* The session after request r ran a statement on it: the connection is a
\* temporary of the statement of line 220 or 225 and is dropped with it.
Used(session, r) ==
    [session EXCEPT !.users = @ \cup {r}, !.runs = @ + 1, !.open = FALSE]

\* What the engine gives for a statement on a session: it depends on the
\* session and the statement only. A statement that names the column
\* created_at, which the table does not have, fails.
EngineRun(session, stmt) ==
    IF ~session.open
    THEN [ok |-> FALSE, rows |-> <<>>, err |-> "Connection Error: connection already closed"]
    ELSE IF TABLE \notin session.tables
    THEN [ok |-> FALSE, rows |-> <<>>, err |-> "Catalog Error: table does not exist"]
    ELSE IF contains(stmt, "created_at")
    THEN [ok |-> FALSE, rows |-> <<>>, err |-> "Binder Error: column not found"]
    ELSE [ok |-> TRUE, rows |-> RowsOf(MaxRows), err |-> ""]

\* The locals of a request when execute is entered with the text t.
Entered(t) ==
    [pc |-> "start", q |-> t, sql |-> "", fallback_used |-> FALSE, rows |-> <<>>,
     review |-> None, chart |-> None, status |-> 0, con |-> 0,
     executed |-> <<>>, results |-> <<>>]

ConcInit ==
    /\ req \in [Requests -> { Entered(t) : t \in ConcInputs }]
    /\ sessions = <<>>
    /\ HandlerIdle
    /\ FnIdle

\* The request r ends with the HTTP status code.
Ended(r, code) ==
    req' = [req EXCEPT ![r].pc = "done", ![r].status = code]

\* The request r goes on to the first execution with the statement s.
Routed(r, s, used) ==
    req' = [req EXCEPT ![r].pc = "connect", ![r].sql = s, ![r].fallback_used = used]

\* Lines 210-217 for request r.
CRoute(r) ==
    /\ req[r].pc = "start"
    /\ IF strip(req[r].q, Whitespace) = "" THEN Ended(r, 422)
       ELSE IF _is_sql(req[r].q)
       THEN \E san \in {sanitize(req[r].q)} :
                IF san.ok THEN Routed(r, san.val, FALSE) ELSE Ended(r, 500)
       ELSE \E reply \in ConcGenReplies :
              \E g \in {_generate_sql_from_question(req[r].q, reply)} :
                IF g.raised = "" THEN Routed(r, g.sql, g.used_fallback)
                ELSE Ended(r, 500)
    /\ UNCHANGED sessions
    /\ UNCHANGED <<vars, fvars>>

\* _con() of line 220 or of line 225 for request r.
CConnect(r) ==
    /\ req[r].pc \in {"connect", "reconnect"}
    /\ sessions' = Connect(sessions, r)
    /\ req' = [req EXCEPT ![r].con = Len(sessions'),
                          ![r].pc = IF req[r].pc = "connect" THEN "run" ELSE "rerun"]
    /\ UNCHANGED <<vars, fvars>>

\* The locals of request r after the engine gave res for its statement.
Ran(r, res) ==
    [req[r] EXCEPT !.executed = Append(@, req[r].sql), !.results = Append(@, res)]

\* What follows the failure of the first execution, lines 221-230 up to the
\* second _con(), fb being the sanitized fallback of the question.
AfterFailure(ran, fb) ==
    IF ~Retryable(ran.q, ran.fallback_used)
    THEN [ran EXCEPT !.pc = "done", !.status = 400]
    ELSE IF fb.raised # ""
    THEN [ran EXCEPT !.pc = "done", !.status = 500]
    ELSE [ran EXCEPT !.pc = "reconnect", !.sql = fb.sql, !.fallback_used = TRUE]

\* Lines 219-224 for request r: .execute(sql) on its connection.
CRun(r) ==
    /\ req[r].pc = "run"
    /\ \E res \in {EngineRun(sessions[req[r].con], req[r].sql)} :
         /\ sessions' = [sessions EXCEPT ![req[r].con] = Used(@, r)]
         /\ IF res.ok
            THEN req' = [req EXCEPT ![r] = [Ran(r, res) EXCEPT !.pc = "review",
                                                            !.rows = res.rows]]
            ELSE req' = [req EXCEPT ![r] =
                            AfterFailure(Ran(r, res), SanitizedFallback(req[r].q))]
    /\ UNCHANGED <<vars, fvars>>

\* Line 225 for request r: .execute(sql) of the retry, not guarded.
CRerun(r) ==
    /\ req[r].pc = "rerun"
    /\ \E res \in {EngineRun(sessions[req[r].con], req[r].sql)} :
         /\ sessions' = [sessions EXCEPT ![req[r].con] = Used(@, r)]
         /\ IF res.ok
            THEN req' = [req EXCEPT ![r] = [Ran(r, res) EXCEPT !.pc = "review",
                                                            !.rows = res.rows]]
            ELSE req' = [req EXCEPT ![r] = [Ran(r, res) EXCEPT !.pc = "done",
                                                            !.status = 500]]
    /\ UNCHANGED <<vars, fvars>>

\* Lines 232-234 for request r.
CReview(r) ==
    /\ req[r].pc = "review"
    /\ \E reply \in ConcRevReplies :
         \E v \in {_review_sql_payload(reply)} :
            IF v.raised = ""
            THEN req' = [req EXCEPT ![r].pc = "chart", ![r].review = v.payload]
            ELSE Ended(r, 500)
    /\ UNCHANGED sessions
    /\ UNCHANGED <<vars, fvars>>

\* Lines 235-236 for request r.
CRespond(r) ==
    /\ req[r].pc = "chart"
    /\ \E reply \in ConcChartReplies :
         \E c \in {_chart_suggestion(req[r].rows, reply)} :
            req' = [req EXCEPT ![r].pc = "done", ![r].chart = c.value,
                               ![r].status = IF ExecResponseValid(req[r].review)
                                             THEN 200 ELSE 500]
    /\ UNCHANGED sessions
    /\ UNCHANGED <<vars, fvars>>

ConcNext ==
    \/ \E r \in Requests : CRoute(r)
    \/ \E r \in Requests : CConnect(r)
    \/ \E r \in Requests : CRun(r)
    \/ \E r \in Requests : CRerun(r)
    \/ \E r \in Requests : CReview(r)
    \/ \E r \in Requests : CRespond(r)

ConcSpec ==
    ConcInit /\ [][ConcNext]_cvars

\* Every session is the session of one request: no other request ran a
\* statement on it, and it served one execution attempt at most.
SessionsAreOwn ==
    \A s \in 1..Len(sessions) :
        /\ sessions[s].users \subseteq {sessions[s].owner}
        /\ sessions[s].runs <= 1
        /\ TABLE \in sessions[s].tables

\* The requests that hold a connection they have not run their statement on
\* hold different ones.
ConnectionsDiffer ==
    \A r1, r2 \in Requests :
        (r1 # r2 /\ req[r1].pc \in {"run", "rerun"} /\ req[r2].pc \in {"run", "rerun"})
            => req[r1].con # req[r2].con

\* Every result a request got is the result of its statement on a fresh
\* session, whatever the other requests did.
ResultsAreOwn ==
    \A r \in Requests :
        \A i \in 1..Len(req[r].results) :
            req[r].results[i] = EngineRun(NewSession(r), req[r].executed[i])

\* A request that has returned holds no open session.
NothingKept ==
    \A s \in 1..Len(sessions) :
        req[sessions[s].owner].pc = "done" => ~sessions[s].open

\* C18: every execution attempt opens a fresh session with its own binding
\* of daily_product_sales and a request keeps nothing after it returns: in
\* any interleaving of several requests no two of them share a session, and
\* the statement, rows, flag and review of a request depend on no other.
RequestsAreIsolated ==
    /\ SessionsAreOwn
    /\ ConnectionsDiffer
    /\ ResultsAreOwn
    /\ NothingKept

\* Two requests were answered, one of them after a retry on a second
\* session, and each session served its owner once.
TwoAnsweredOnOwnSessions ==
    /\ \A r \in Requests : req[r].pc = "done" /\ req[r].status = 200
    /\ \E r \in Requests : Len(req[r].executed) = 2
    /\ Len(sessions) >= 3
    /\ \A s \in 1..Len(sessions) : sessions[s].users = {sessions[s].owner}
    /\ \E s \in 2..Len(sessions) : sessions[s].owner # sessions[1].owner
====
